---- MODULE Spec2Model ----
(***************************************************************************)
(* kubernetes-cloudflare-sync: the node-event loop of src/main.go.         *)
(*                                                                         *)
(* A Go string is a sequence of byte values, so that sort.Strings,         *)
(* strings.Join and strings.Split are modelled by what they do on bytes.   *)
(*   "1" = <<49>>   "10" = <<49,48>>   "2" = <<50>>                        *)
(*   "a.x" = <<97,46,120>>   "x" = <<120>>   "b.y" = <<98,46,121>>         *)
(***************************************************************************)
EXTENDS Integers, Sequences, FiniteSets, TLC

VARIABLES
    options,   \* the options struct (src/main.go:21-43), fixed after flag.Parse
    phase,     \* position of main(): "start", "running" (informer.Run), "fatal"
    cache,     \* the informer's node store, read by lister.List
    pending,   \* notifications the informer has not yet delivered to the handler
    lastIPs,   \* var lastIPs []string (src/main.go:115)
    active,    \* the sync calls in flight (one per pass that is executing line 155)
    last,      \* what the most recent pass logged: list error, ips, sync outcome
    records,   \* the provider's address records, per configured name
    lastCall,  \* the ips argument of the most recent call of sync, if one was made
    provider,  \* the provider's records with ttl and proxy flag, as one sync call sees them
    call       \* the sync call whose provider operations are followed one by one

vars == <<options, phase, cache, pending, lastIPs, active, last, records,
          lastCall, provider, call>>

(***************************************************************************)
(* Bounds                                                                  *)
(***************************************************************************)
MaxPending == 1

(***************************************************************************)
(* Strings                                                                 *)
(***************************************************************************)
Comma == 44

\* byte-wise lexicographic order, as sort.Strings compares
RECURSIVE StrLess(_, _)
StrLess(a, b) ==
    IF b = <<>> THEN FALSE
    ELSE IF a = <<>> THEN TRUE
    ELSE IF a[1] < b[1] THEN TRUE
    ELSE IF a[1] > b[1] THEN FALSE
    ELSE StrLess(Tail(a), Tail(b))

\* insert one string into a sorted sequence
RECURSIVE Insert(_, _)
Insert(x, s) ==
    IF s = <<>> THEN <<x>>
    ELSE IF StrLess(Head(s), x) THEN <<Head(s)>> \o Insert(x, Tail(s))
    ELSE <<x>> \o s

\* A buggy sort that leaves its input as it is.
SortStringsUnsorted(s) == s

\* sort.Strings(ips): the ascending permutation of s, duplicates kept
RECURSIVE SortStrings(_)
SortStrings(s) ==
    IF s = <<>> THEN <<>> ELSE Insert(Head(s), SortStrings(Tail(s)))

\* strings.Join(elems, sep)
RECURSIVE Join(_, _)
Join(elems, sep) ==
    IF elems = <<>> THEN <<>>
    ELSE IF Len(elems) = 1 THEN elems[1]
    ELSE elems[1] \o sep \o Join(Tail(elems), sep)

\* strings.Split(s, sep) for a one-byte separator; Split("", ",") = [""]
RECURSIVE Split(_, _)
Split(s, c) ==
    IF \A i \in 1..Len(s) : s[i] # c THEN <<s>>
    ELSE LET i == CHOOSE k \in 1..Len(s) :
                      s[k] = c /\ \A j \in 1..(k - 1) : s[j] # c
         IN  <<SubSeq(s, 1, i - 1)>> \o Split(SubSeq(s, i + 1, Len(s)), c)

Range(s) == {s[i] : i \in 1..Len(s)}

(***************************************************************************)
(* Nodes                                                                   *)
(***************************************************************************)
Cond(t, s) == [type |-> t, status |-> s]
Addr(t, a) == [type |-> t, address |-> a]
Node(c, a) == [conds |-> c, addrs |-> a]

\* the node objects the cluster may report
NodeShapes ==
    { Node(<<Cond("Ready", "True")>>,
           <<Addr("ExternalIP", <<50>>), Addr("InternalIP", <<49, 48>>)>>),
      Node(<<Cond("MemoryPressure", "False"), Cond("Ready", "True")>>,
           <<Addr("InternalIP", <<50>>), Addr("ExternalIP", <<49>>),
             Addr("ExternalIP", <<49, 48>>)>>),
      Node(<<Cond("Ready", "True")>>,
           <<Addr("Hostname", <<50>>), Addr("InternalIP", <<49>>)>>),
      Node(<<Cond("Ready", "False")>>,
           <<Addr("ExternalIP", <<49>>), Addr("InternalIP", <<50>>)>>),
      Node(<<Cond("Ready", "Unknown")>>, <<Addr("ExternalIP", <<50>>)>>),
      Node(<<Cond("MemoryPressure", "True")>>,
           <<Addr("ExternalIP", <<49, 48>>), Addr("InternalIP", <<49>>)>>),
      Node(<<>>, <<Addr("ExternalIP", <<49>>), Addr("InternalIP", <<50>>)>>) }

NodeNames == {"n1", "n2"}

\* A readiness test that forgets to look at the condition's status.
nodeIsReadyAnyStatus(node) ==
    \E i \in 1..Len(node.conds) : node.conds[i].type = "Ready"

\* func nodeIsReady
nodeIsReady(node) ==
    \E i \in 1..Len(node.conds) :
        node.conds[i].type = "Ready" /\ node.conds[i].status = "True"

\* the inner loop over node.Status.Addresses: the addresses of one type, in order
AddrsOfType(node, t) ==
    LET sel == SelectSeq(node.addrs, LAMBDA a : a.type = t)
    IN  [i \in 1..Len(sel) |-> sel[i].address]

\* the outer loop over nodes: the addresses of type t of the ready nodes
RECURSIVE CollectIPs(_, _)
CollectIPs(nodes, t) ==
    IF nodes = <<>> THEN <<>>
    ELSE (IF nodeIsReady(Head(nodes)) THEN AddrsOfType(Head(nodes), t) ELSE <<>>)
         \o CollectIPs(Tail(nodes), t)

\* A selection that appends the internal addresses whenever UseInternalIP is set.
SelectIPsAlsoInternal(nodes, opts) ==
    LET ext == IF ~opts.SkipExternalIP THEN CollectIPs(nodes, "ExternalIP") ELSE <<>>
    IN  IF opts.UseInternalIP THEN ext \o CollectIPs(nodes, "InternalIP") ELSE ext

\* A selection that collects the external addresses whatever SkipExternalIP says.
SelectIPsIgnoreSkip(nodes, opts) ==
    LET ext == CollectIPs(nodes, "ExternalIP")
    IN  IF opts.UseInternalIP /\ Len(ext) = 0
        THEN CollectIPs(nodes, "InternalIP")
        ELSE ext

\* the two collection loops of resync, before the sort
SelectIPs(nodes, opts) ==
    LET ext == IF ~opts.SkipExternalIP THEN CollectIPs(nodes, "ExternalIP") ELSE <<>>
    IN  IF opts.UseInternalIP /\ Len(ext) = 0
        THEN CollectIPs(nodes, "InternalIP")
        ELSE ext

\* ips as resync has it at line 148
ComputeIPs(nodes, opts) == SortStrings(SelectIPs(nodes, opts))

(***************************************************************************)
(* Configuration and startup                                               *)
(***************************************************************************)
Opt(name, roots, useInternal, skipExternal, creds) ==
    [DNSName |-> name, DNSRoots |-> roots, UseInternalIP |-> useInternal,
     SkipExternalIP |-> skipExternal, creds |-> creds,
     CloudflareTTL |-> <<>>, CloudflareProxy |-> <<>>]

\* the configurations the process is started with
OptionSets ==
    { Opt(<<97, 46, 120>>, <<120>>, u, s, TRUE) : u \in BOOLEAN, s \in BOOLEAN }
    \cup { Opt(<<98, 46, 121>>, <<120>>, FALSE, FALSE, TRUE),
           Opt(<<97, 46, 120, 44, 98, 46, 121>>, <<120>>, TRUE, FALSE, TRUE),
           Opt(<<>>, <<120>>, FALSE, FALSE, TRUE),
           Opt(<<97, 46, 120>>, <<>>, FALSE, FALSE, TRUE),
           Opt(<<97, 46, 120>>, <<120>>, FALSE, FALSE, FALSE) }

dnsNames == Split(options.DNSName, Comma)
dnsRoots == Split(options.DNSRoots, Comma)

\* the digits of a number, after its sign if it has one
AtoiDigits(s) == IF s # <<>> /\ s[1] \in {43, 45} THEN Tail(s) ELSE s

\* strconv.Atoi returns no error: an optional sign, then decimal digits only
\* (the strings of the model are short, far inside the range of int)
AtoiOk(s) ==
    /\ AtoiDigits(s) # <<>>
    /\ \A i \in 1..Len(AtoiDigits(s)) : AtoiDigits(s)[i] \in 48..57

RECURSIVE DigitsValue(_)
DigitsValue(d) ==
    IF d = <<>> THEN 0
    ELSE 10 * DigitsValue(SubSeq(d, 1, Len(d) - 1)) + (d[Len(d)] - 48)

\* the number strconv.Atoi returns when it returns no error
AtoiValue(s) ==
    IF s[1] = 45 THEN 0 - DigitsValue(AtoiDigits(s)) ELSE DigitsValue(AtoiDigits(s))

DefaultTTL == 120

\* cloudflareTTL after lines 82-86
cloudflareTTL ==
    IF AtoiOk(options.CloudflareTTL) THEN AtoiValue(options.CloudflareTTL)
    ELSE DefaultTTL

\* the strings strconv.ParseBool takes for true: 1, t, T, TRUE, true, True
ParseBoolTrue ==
    { <<49>>, <<116>>, <<84>>, <<84, 82, 85, 69>>, <<116, 114, 117, 101>>,
      <<84, 114, 117, 101>> }

\* cloudflareProxy after lines 76-80: every other string is false, by its value
\* or by the default taken on a parse error
cloudflareProxy == options.CloudflareProxy \in ParseBoolTrue

\* the values CF_TTL is given: unset, 300, 0, -5, 1x, +7
TTLStrings == { <<>>, <<51, 48, 48>>, <<48>>, <<45, 53>>, <<49, 120>>, <<43, 55>> }

\* configurations that differ in the ttl only
TTLOptionSets ==
    { [Opt(<<97, 46, 120>>, <<120>>, FALSE, FALSE, TRUE) EXCEPT !.CloudflareTTL = t] :
        t \in TTLStrings }

\* the three log.Fatalln checks of main before the informer is built
StartupFatal ==
    \/ ~options.creds
    \/ (Len(dnsNames) = 1 /\ dnsNames[1] = <<>>)
    \/ (Len(dnsRoots) = 1 /\ dnsRoots[1] = <<>>)

Startup ==
    /\ phase = "start"
    /\ phase' = IF StartupFatal THEN "fatal" ELSE "running"
    /\ UNCHANGED <<options, cache, pending, lastIPs, active, last, records,
                   lastCall, provider, call>>

(***************************************************************************)
(* The node informer                                                       *)
(***************************************************************************)
\* the names of the nodes in the store
Present == DOMAIN cache

NodeAdded ==
    /\ phase = "running"
    /\ Len(pending) < MaxPending
    /\ \E n \in NodeNames \ Present, node \in NodeShapes :
           cache' = [m \in Present \cup {n} |-> IF m = n THEN node ELSE cache[m]]
    /\ pending' = Append(pending, "Add")
    /\ UNCHANGED <<options, phase, lastIPs, active, last, records,
                   lastCall, provider, call>>

NodeUpdated ==
    /\ phase = "running"
    /\ Len(pending) < MaxPending
    /\ \E n \in Present :
           \E node \in NodeShapes \ {cache[n]} :
               cache' = [cache EXCEPT ![n] = node]
    /\ pending' = Append(pending, "Update")
    /\ UNCHANGED <<options, phase, lastIPs, active, last, records,
                   lastCall, provider, call>>

NodeDeleted ==
    /\ phase = "running"
    /\ Len(pending) < MaxPending
    /\ \E n \in Present : cache' = [m \in Present \ {n} |-> cache[m]]
    /\ pending' = Append(pending, "Delete")
    /\ UNCHANGED <<options, phase, lastIPs, active, last, records,
                   lastCall, provider, call>>

\* the factory's one-minute resync: an Update for a node that has not changed
ResyncPeriod ==
    /\ phase = "running"
    /\ Len(pending) < MaxPending
    /\ Present # {}
    /\ pending' = Append(pending, "Update")
    /\ UNCHANGED <<options, phase, cache, lastIPs, active, last, records,
                   lastCall, provider, call>>

\* the orders in which the store may hand out its nodes
ListOrders ==
    LET k == Cardinality(Present)
    IN  { [i \in 1..k |-> cache[f[i]]] :
            f \in {g \in [1..k -> Present] : \A i, j \in 1..k : g[i] = g[j] => i = j} }

\* lister.List(nodeSelector): every node in some order, or an error raised at one
\* of the store's objects, with the part of the list built before it
ListOutcomes ==
    { [nodes |-> p, err |-> FALSE] : p \in ListOrders }
    \cup { [nodes |-> SubSeq(q[1], 1, q[2]), err |-> TRUE] :
             q \in { r \in ListOrders \X (0..Cardinality(NodeNames)) : r[2] < Len(r[1]) } }

(***************************************************************************)
(* resync                                                                  *)
(***************************************************************************)
\* A comparison that always reports a change.
ChangedAlways(ips, prev) == TRUE

\* A comparison that only looks at how many addresses there are.
ChangedByLength(ips, prev) == Len(ips) # Len(prev)

\* the negation of line 149's test
Changed(ips, prev) == Join(ips, <<Comma>>) # Join(prev, <<Comma>>)

\* A resync that calls sync without storing the new addresses in lastIPs.
ResyncNoStore ==
    \E out \in ListOutcomes :
        LET ips == ComputeIPs(out.nodes, options)
        IN  IF ~Changed(ips, lastIPs)
            THEN /\ last' = [listErr |-> out.err, ips |-> ips, sync |-> "skipped"]
                 /\ UNCHANGED <<lastIPs, active, lastCall>>
            ELSE /\ lastIPs' = lastIPs
                 /\ active' = active \cup {ips}
                 /\ lastCall' = [made |-> TRUE, ips |-> ips]
                 /\ last' = [listErr |-> out.err, ips |-> ips, sync |-> "called"]

\* the body of the resync closure, up to and including the call of sync
Resync ==
    \E out \in ListOutcomes :
        LET ips == ComputeIPs(out.nodes, options)
        IN  IF ~Changed(ips, lastIPs)
            THEN /\ last' = [listErr |-> out.err, ips |-> ips, sync |-> "skipped"]
                 /\ UNCHANGED <<lastIPs, active, lastCall>>
            ELSE /\ lastIPs' = ips
                 /\ active' = active \cup {ips}
                 /\ lastCall' = [made |-> TRUE, ips |-> ips]
                 /\ last' = [listErr |-> out.err, ips |-> ips, sync |-> "called"]

\* A delivery that does not wait for the previous handler call to return.
HandlerFreeNoWait == TRUE

\* the informer calls the registered handler for one notification at a time: the
\* next call is made when the previous one has returned
HandlerFree == active = {}

\* A handler that takes the notification and does not run resync.
DeliverDropped ==
    /\ phase = "running"
    /\ HandlerFree
    /\ pending' = Tail(pending)
    /\ UNCHANGED <<options, phase, cache, records, provider, call,
                   lastIPs, active, last, lastCall>>

\* one call of a handler: the notification is taken and resync runs
Deliver ==
    /\ phase = "running"
    /\ HandlerFree
    /\ pending' = Tail(pending)
    /\ Resync
    /\ UNCHANGED <<options, phase, cache, records, provider, call>>

AddFunc ==
    /\ pending # <<>> /\ Head(pending) = "Add"
    /\ Deliver

UpdateFunc ==
    /\ pending # <<>> /\ Head(pending) = "Update"
    /\ Deliver

DeleteFunc ==
    /\ pending # <<>> /\ Head(pending) = "Delete"
    /\ Deliver

(***************************************************************************)
(* sync and the provider                                                   *)
(***************************************************************************)
\* name is root or a subdomain of it
InZone(name, root) ==
    \/ name = root
    \/ /\ Len(name) > Len(root) + 1
       /\ SubSeq(name, Len(name) - Len(root), Len(name)) = <<46>> \o root

\* the roots that own name: the longest of the matching ones
ZonesOf(name, roots) ==
    LET m == {i \in 1..Len(roots) : InZone(name, roots[i])}
    IN  {i \in m : \A j \in m : Len(roots[j]) <= Len(roots[i])}

HasZone(name, roots) == Cardinality(ZonesOf(name, roots)) = 1

\* the record contents one name can be left with: every delete and create of the
\* plan either applied or not
Between(existing, desired) ==
    {r \in SUBSET (existing \cup desired) : (existing \cap desired) \subseteq r}

\* the provider's records after sync(ips, dnsNames, dnsRoots, ...) returns: a name
\* without a zone is left alone; a successful call leaves every name with the
\* desired contents; a failed call leaves each name anywhere in between
SyncResults(ips, ok) ==
    LET zoned == {n \in Range(dnsNames) : HasZone(n, dnsRoots)}
        choices == [n \in zoned |-> IF ok THEN {Range(ips)}
                                    ELSE Between(records[n], Range(ips))]
    IN  { [n \in Range(dnsNames) |-> IF n \in zoned THEN c[n] ELSE records[n]] :
            c \in {f \in [zoned -> UNION {choices[n] : n \in zoned}] :
                      \A n \in zoned : f[n] \in choices[n]} }

SyncOk ==
    /\ \A n \in Range(dnsNames) : HasZone(n, dnsRoots)
    /\ \E a \in active :
           /\ active' = active \ {a}
           /\ records' \in SyncResults(a, TRUE)
    /\ last' = [last EXCEPT !.sync = "ok"]
    /\ UNCHANGED <<options, phase, cache, pending, lastIPs, lastCall, provider, call>>

SyncFail ==
    /\ \E a \in active :
           /\ active' = active \ {a}
           /\ records' \in SyncResults(a, FALSE)
    /\ last' = [last EXCEPT !.sync = "failed"]
    /\ UNCHANGED <<options, phase, cache, pending, lastIPs, lastCall, provider, call>>

(***************************************************************************)
(* Specification                                                           *)
(***************************************************************************)
\* what the provider may hold for a name when the process starts
StaleRecords == {{}, {<<50>>}}

\* the state in which main begins, but for the options
InitRest ==
    /\ phase = "start"
    /\ cache = [n \in {} |-> n]
    /\ pending = <<>>
    /\ lastIPs = <<>>
    /\ active = {}
    /\ last = [listErr |-> FALSE, ips |-> <<>>, sync |-> "none"]
    /\ \E st \in StaleRecords : records = [n \in Range(dnsNames) |-> st]
    /\ lastCall = [made |-> FALSE, ips |-> <<>>]
    /\ provider = <<>>
    /\ call = [stage |-> "none"]

Init == options \in OptionSets /\ InitRest

InitTTL == options \in TTLOptionSets /\ InitRest

Next ==
    \/ Startup
    \/ NodeAdded
    \/ NodeUpdated
    \/ NodeDeleted
    \/ ResyncPeriod
    \/ AddFunc
    \/ UpdateFunc
    \/ DeleteFunc
    \/ SyncOk
    \/ SyncFail

Spec == Init /\ [][Next]_vars

\* the same program started with the ttl configurations
SpecTTL == InitTTL /\ [][Next]_vars

(***************************************************************************)
(* sync, one provider operation at a time                                  *)
(***************************************************************************)
MaxCalls == 2

Rec(c, t, p) == [content |-> c, ttl |-> t, proxied |-> p]

\* the record a create makes, and what an update turns a record into
NewRec(c) == Rec(c, cloudflareTTL, cloudflareProxy)

Contents(recs) == {r.content : r \in recs}

Op(i, k, r) == [idx |-> i, kind |-> k, rec |-> r]

\* toDelete = existingContents - desiredSet
ToDelete(fetched, desired) == {r \in fetched : r.content \notin desired}

\* A plan that creates every desired address, also those that have a record.
ToCreateAll(fetched, desired) == desired

\* toCreate = desiredSet - existingContents
ToCreate(fetched, desired) == desired \ Contents(fetched)

\* A plan that updates every kept record, whatever its ttl and proxy flag.
ToUpdateAlways(fetched, desired) == {r \in fetched : r.content \in desired}

\* toUpdate = records present in both sets whose ttl or proxy flag differs
ToUpdate(fetched, desired) ==
    {r \in fetched : r.content \in desired /\ r # NewRec(r.content)}

\* the plan for the name at index i
Plan(i, fetched, desired) ==
    {Op(i, "delete", r) : r \in ToDelete(fetched, desired)}
    \cup {Op(i, "create", NewRec(c)) : c \in ToCreate(fetched, desired)}
    \cup {Op(i, "update", r) : r \in ToUpdate(fetched, desired)}

\* deletes are applied first, then creates, then updates
Appliable(todo) ==
    LET of(k) == {o \in todo : o.kind = k}
    IN  IF of("delete") # {} THEN of("delete")
        ELSE IF of("create") # {} THEN of("create")
        ELSE of("update")

\* the records of a name after the operation has succeeded
Applied(recs, o) ==
    IF o.kind = "delete" THEN recs \ {o.rec}
    ELSE IF o.kind = "create" THEN recs \cup {o.rec}
    ELSE (recs \ {o.rec}) \cup {NewRec(o.rec.content)}

\* a call of sync(ips, ...) as it begins: nothing fetched, nothing applied
StartCall(ips, n, prevOk, prevOps) ==
    [stage |-> "fetch", n |-> n, desired |-> ips, idx |-> 1, todo |-> {},
     plans |-> {}, fetched |-> {}, skipped |-> {}, log |-> <<>>, failed |-> FALSE,
     before |-> provider, prevOk |-> prevOk, prevOps |-> prevOps]

\* the call moves to the next name, or returns after the last one
Advance(c) ==
    IF c.todo # {} THEN c
    ELSE IF c.idx >= Len(dnsNames) THEN [c EXCEPT !.stage = "done"]
    ELSE [c EXCEPT !.stage = "fetch", !.idx = c.idx + 1]

mainVars == <<options, phase, cache, pending, lastIPs, active, last, lastCall>>

\* ListRecords(zone, name) returns the name's records and the plan is computed
FetchOk ==
    /\ call.stage = "fetch"
    /\ HasZone(dnsNames[call.idx], dnsRoots)
    /\ LET plan == Plan(call.idx, provider[dnsNames[call.idx]], Range(call.desired))
       IN  call' = Advance([call EXCEPT !.stage = "apply", !.todo = plan,
                                        !.plans = call.plans \cup plan,
                                        !.fetched = call.fetched \cup {call.idx}])
    /\ UNCHANGED <<mainVars, records, provider>>

\* ListRecords fails: the name has no plan in this call
FetchFail ==
    /\ call.stage = "fetch"
    /\ call' = Advance([call EXCEPT !.stage = "apply", !.failed = TRUE,
                                     !.skipped = call.skipped \cup {call.idx}])
    /\ UNCHANGED <<mainVars, records, provider>>

\* one operation of the plan is applied
OpOk ==
    /\ call.stage = "apply"
    /\ \E o \in Appliable(call.todo) :
           LET name == dnsNames[o.idx]
               recs == Applied(provider[name], o)
           IN  /\ provider' = [provider EXCEPT ![name] = recs]
               /\ records' = [records EXCEPT ![name] = Contents(recs)]
               /\ call' = Advance([call EXCEPT
                                     !.todo = call.todo \ {o},
                                     !.log = Append(call.log, [op |-> o, ok |-> TRUE])])
    /\ UNCHANGED mainVars

\* A failure that ends the call, leaving the rest of the plan unapplied.
OpFailAbort ==
    /\ call.stage = "apply"
    /\ \E o \in Appliable(call.todo) :
           call' = [call EXCEPT !.stage = "done", !.todo = {}, !.failed = TRUE,
                                !.log = Append(call.log, [op |-> o, ok |-> FALSE])]
    /\ UNCHANGED <<mainVars, records, provider>>

\* one operation of the plan fails: it is recorded and the rest proceeds
OpFail ==
    /\ call.stage = "apply"
    /\ \E o \in Appliable(call.todo) :
           call' = Advance([call EXCEPT
                              !.todo = call.todo \ {o}, !.failed = TRUE,
                              !.log = Append(call.log, [op |-> o, ok |-> FALSE])])
    /\ UNCHANGED <<mainVars, records, provider>>

\* sync is called again with the same addresses, the provider untouched in between
ReconcileAgain ==
    /\ call.stage = "done"
    /\ call.n < MaxCalls
    /\ call' = StartCall(call.desired, call.n + 1, ~call.failed, Len(call.log))
    /\ UNCHANGED <<mainVars, records, provider>>

\* the stores whose addresses sync is called with
SyncStores ==
    { [n \in {} |-> n] }
    \cup { [n \in {"n1"} |-> sh] : sh \in NodeShapes }
    \cup [NodeNames -> {sh \in NodeShapes : nodeIsReady(sh)}]

\* what the provider may hold for a name when sync is called
InitialRecordSets ==
    { {},
      {Rec(<<50>>, 120, FALSE), Rec(<<49>>, 120, FALSE)},
      {Rec(<<49>>, 300, FALSE), Rec(<<49, 48>>, 120, TRUE)},
      {Rec(<<50>>, 300, FALSE)} }

\* a.x in root x with the default ttl and proxy flag; a.x and x in root x with
\* ttl 300 and proxy "true"
SyncOptionSets ==
    { Opt(<<97, 46, 120>>, <<120>>, FALSE, FALSE, TRUE),
      [Opt(<<97, 46, 120, 44, 120>>, <<120>>, TRUE, FALSE, TRUE)
         EXCEPT !.CloudflareTTL = <<51, 48, 48>>,
                !.CloudflareProxy = <<116, 114, 117, 101>>] }

\* the state in which a pass has just called sync with the addresses it computed
InitSync ==
    /\ options \in SyncOptionSets
    /\ phase = "running"
    /\ cache \in SyncStores
    /\ pending = <<>>
    /\ \E q \in ListOrders : lastIPs = ComputeIPs(q, options)
    /\ active = {lastIPs}
    /\ last = [listErr |-> FALSE, ips |-> lastIPs, sync |-> "called"]
    /\ lastCall = [made |-> TRUE, ips |-> lastIPs]
    /\ provider \in [Range(dnsNames) -> InitialRecordSets]
    /\ records = [n \in Range(dnsNames) |-> Contents(provider[n])]
    /\ call = StartCall(lastIPs, 1, FALSE, 0)

NextSync ==
    \/ FetchOk
    \/ FetchFail
    \/ OpOk
    \/ OpFail
    \/ ReconcileAgain

SpecSync == InitSync /\ [][NextSync]_vars

(***************************************************************************)
(* Properties                                                              *)
(***************************************************************************)
\* a step in which a handler took a notification and ran resync
PassStep == Len(pending') < Len(pending)

\* the node carries a Ready condition whose status is True
ReadyTrue(node) ==
    \E i \in DOMAIN node.conds : node.conds[i] = [type |-> "Ready", status |-> "True"]

\* the address entries (node name, index) of the store's nodes
StoreEntries == UNION {{<<n, j>> : j \in DOMAIN cache[n].addrs} : n \in Present}

\* how many entries of type t and address x the store's ready nodes carry
ReadyCount(x, t) ==
    Cardinality({e \in StoreEntries :
                    /\ ReadyTrue(cache[e[1]])
                    /\ cache[e[1]].addrs[e[2]] = [type |-> t, address |-> x]})

StoreAddrs == {cache[e[1]].addrs[e[2]].address : e \in StoreEntries}

\* how often x occurs in the sequence s
Occ(x, s) == Cardinality({i \in DOMAIN s : s[i] = x})

IsSorted(s) == \A i \in 1..(Len(s) - 1) : ~StrLess(s[i + 1], s[i])
NoDuplicates(s) == \A i, j \in DOMAIN s : s[i] = s[j] => i = j

NoReadyNode == \A n \in Present : ~ReadyTrue(cache[n])
ProviderHoldsRecords == \E n \in DOMAIN records : records[n] # {}

\* the pass that has just run saw the store as it is now
FreshPass == last.sync \in {"called", "skipped"} /\ ~last.listErr /\ pending = <<>>

\* C1: a pass whose node listing failed leaves lastIPs as it was and makes no
\* sync call, whatever lastIPs held.
C1_ListFailureAbandonsPass ==
    [][(PassStep /\ last'.listErr) => (lastIPs' = lastIPs /\ active' = active)]_vars

\* C2: after a pass whose sync call failed, the next pass (with the nodes listed)
\* calls sync again, also when it computes the same addresses.
C2_FailedSyncRetried ==
    [][(PassStep /\ last.sync = "failed" /\ ~last'.listErr) => last'.sync = "called"]_vars

\* C3: a pass that computes what lastIPs holds calls nothing and changes nothing;
\* the second of two consecutive passes computing the same addresses makes no
\* sync call; and a pass calls sync exactly when it changed lastIPs, so that the
\* two passes together make at most one call, the first pass's.
C3_ChangeSuppression ==
    [][PassStep =>
         /\ (last'.ips = lastIPs =>
                 last'.sync = "skipped" /\ active' = active /\ lastIPs' = lastIPs)
         /\ ((last.sync # "none" /\ last'.ips = last.ips) =>
                 last'.sync = "skipped" /\ active' = active)
         /\ (last'.sync = "called" <=> lastIPs' # lastIPs)
         /\ (last'.sync = "called" <=> active' # active)]_vars

C3_Witness ==
    /\ last.sync = "skipped"
    /\ ~last.listErr
    /\ last.ips = lastIPs
    /\ lastIPs # <<>>

C5_SortedNoDuplicates ==
    ~last.listErr =>
        /\ IsSorted(last.ips) /\ NoDuplicates(last.ips)
        /\ \A a \in active : IsSorted(a) /\ NoDuplicates(a)

\* C6: a pass that lists the nodes and finds none of them ready, while the
\* provider holds records, computes no address and calls sync with none.
C6_EmptySetReconciled ==
    [][(PassStep /\ ~last'.listErr /\ NoReadyNode /\ ProviderHoldsRecords) =>
           (last'.ips = <<>> /\ last'.sync = "called" /\ <<>> \in active')]_vars

\* C7: with UseInternalIP set and SkipExternalIP unset, a pass that lists the
\* nodes computes exactly the external addresses of the ready nodes when there
\* is one, and exactly their internal addresses otherwise.
C7_FallbackPolicy ==
    [][(PassStep /\ ~last'.listErr /\ options.UseInternalIP /\ ~options.SkipExternalIP) =>
           IF \E x \in StoreAddrs : ReadyCount(x, "ExternalIP") > 0
           THEN \A x \in StoreAddrs \cup Range(last'.ips) :
                    Occ(x, last'.ips) = ReadyCount(x, "ExternalIP")
           ELSE \A x \in StoreAddrs \cup Range(last'.ips) :
                    Occ(x, last'.ips) = ReadyCount(x, "InternalIP")]_vars

C7_Witness ==
    /\ FreshPass
    /\ options.UseInternalIP /\ ~options.SkipExternalIP
    /\ \E x \in StoreAddrs : ReadyCount(x, "ExternalIP") > 0
    /\ \E x \in StoreAddrs : ReadyCount(x, "InternalIP") > 0 /\ Occ(x, last.ips) = 0
    /\ last.ips # <<>>

\* C8: under every selection policy, every address a pass computes is an
\* external or internal address of a node whose Ready condition is True, as
\* often as such nodes carry it: the other nodes contribute nothing.
C8_ReadinessGating ==
    [][PassStep =>
           \A x \in StoreAddrs \cup Range(last'.ips) :
               Occ(x, last'.ips)
                   <= ReadyCount(x, "ExternalIP") + ReadyCount(x, "InternalIP")]_vars

C8_Witness ==
    /\ FreshPass
    /\ \E n \in Present : ReadyTrue(cache[n])
    /\ \E n \in Present :
           /\ ~ReadyTrue(cache[n])
           /\ \E j \in DOMAIN cache[n].addrs :
                  /\ cache[n].addrs[j].type \in {"ExternalIP", "InternalIP"}
                  /\ cache[n].addrs[j].address \notin Range(last.ips)
    /\ last.ips # <<>>

\* C9: the addresses a pass computes do not depend on the order in which the
\* nodes were listed: every order of the same nodes gives the same sequence.
C9_OrderIndependent ==
    [][(PassStep /\ ~last'.listErr) =>
           \A q \in ListOrders : ComputeIPs(q, options) = last'.ips]_vars

C9_Witness ==
    /\ FreshPass
    /\ \E p, q \in ListOrders : SelectIPs(p, options) # SelectIPs(q, options)
    /\ \A q \in ListOrders : ComputeIPs(q, options) = last.ips

\* C10: when a configured name lies in no configured root (or in several
\* equally specific ones), no sync call is ever made.
C10_UnzonedNameNeverReconciled ==
    (\E i \in DOMAIN dnsNames : ~HasZone(dnsNames[i], dnsRoots)) => active = {}

\* the addresses of every type the store's node n carries
NodeAddrSet(n) == {cache[n].addrs[j].address : j \in DOMAIN cache[n].addrs}

\* C14: a step that takes a notification takes exactly one and runs one pass,
\* whose addresses are computed from a listing of the whole store as it is at
\* that moment; no other step runs a pass.
C14_OnePassPerNotification ==
    [][/\ PassStep =>
            /\ pending' = Tail(pending)
            /\ last'.sync \in {"called", "skipped"}
            /\ (~last'.listErr =>
                    \E q \in ListOrders : last'.ips = ComputeIPs(q, options))
       /\ ~PassStep =>
            /\ lastIPs' = lastIPs
            /\ last'.ips = last.ips /\ last'.listErr = last.listErr
            /\ last'.sync \in {last.sync, "ok", "failed"}
            /\ active' \subseteq active]_vars

C14_Witness ==
    /\ FreshPass
    /\ \E n, m \in Present :
           /\ n # m
           /\ (Range(last.ips) \cap NodeAddrSet(n)) \ NodeAddrSet(m) # {}
           /\ (Range(last.ips) \cap NodeAddrSet(m)) \ NodeAddrSet(n) # {}

C17_LastIPsIsLastCallArgument ==
    IF lastCall.made THEN lastIPs = lastCall.ips ELSE lastIPs = <<>>

C17_Witness ==
    /\ lastCall.made
    /\ last.sync = "failed"
    /\ active = {}
    /\ lastIPs # <<>>

\* C18: with SkipExternalIP set and UseInternalIP unset every pass computes no
\* address, lastIPs stays empty and sync is never called.
C18_SkipWithoutInternal ==
    (options.SkipExternalIP /\ ~options.UseInternalIP) =>
        /\ last.ips = <<>>
        /\ lastIPs = <<>>
        /\ active = {}
        /\ ~lastCall.made
        /\ last.sync \in {"none", "skipped"}

C18_Witness ==
    /\ options.SkipExternalIP /\ ~options.UseInternalIP
    /\ FreshPass
    /\ \E x \in StoreAddrs : ReadyCount(x, "ExternalIP") > 0
    /\ \E x \in StoreAddrs : ReadyCount(x, "InternalIP") > 0

\* C16: the ttl a sync call is given is positive: the configured number when that
\* is a positive number, and 120 when the configured string is absent, not a
\* number, zero or negative.
C16_TTLPositive ==
    lastCall.made =>
        /\ cloudflareTTL > 0
        /\ cloudflareTTL =
               IF AtoiOk(options.CloudflareTTL) /\ AtoiValue(options.CloudflareTTL) > 0
               THEN AtoiValue(options.CloudflareTTL)
               ELSE 120

(***************************************************************************)
(* Properties of one sync call                                             *)
(***************************************************************************)
Logged == {call.log[j].op : j \in 1..Len(call.log)}

LoggedRecs(i, k) == {o.rec : o \in {x \in Logged : x.idx = i /\ x.kind = k}}

NameSucceeded(i) ==
    /\ i \in call.fetched
    /\ \A j \in 1..Len(call.log) : call.log[j].op.idx = i => call.log[j].ok

\* C11: when a call has returned and every provider operation for a name
\* succeeded, the contents of the name's records are exactly the desired
\* addresses; the deletes issued are exactly the fetched records whose content
\* is not desired, the creates exactly the desired addresses that had no
\* record, and every fetched record with a desired content is kept.
C11_ReconcileConverges ==
    call.stage = "done" =>
        \A i \in 1..Len(dnsNames) :
            NameSucceeded(i) =>
                LET D == Range(call.desired)
                    B == call.before[dnsNames[i]]
                    P == provider[dnsNames[i]]
                IN  /\ Contents(P) = D
                    /\ LoggedRecs(i, "delete") = {r \in B : r.content \notin D}
                    /\ Contents(LoggedRecs(i, "create")) = D \ Contents(B)
                    /\ \A r \in B : r.content \in D =>
                           (r \in P \/ NewRec(r.content) \in P)

\* desired {"1","10"} against existing {"2","1"}: delete("2") and create("10") only
C11_Witness ==
    /\ call.stage = "done" /\ call.n = 1 /\ ~call.failed
    /\ Range(call.desired) = {<<49>>, <<49, 48>>}
    /\ Contents(call.before[dnsNames[1]]) = {<<50>>, <<49>>}
    /\ Contents(LoggedRecs(1, "delete")) = {<<50>>}
    /\ Contents(LoggedRecs(1, "create")) = {<<49, 48>>}
    /\ LoggedRecs(1, "update") = {}
    /\ Contents(provider[dnsNames[1]]) = {<<49>>, <<49, 48>>}

\* C12: a call that follows a fully successful call with the same addresses,
\* the provider untouched in between, plans and issues no create, update or
\* delete, and leaves the provider as it found it.
C12_Idempotent ==
    (call.n > 1 /\ call.prevOk) =>
        /\ call.log = <<>>
        /\ call.plans = {}
        /\ call.todo = {}
        /\ provider = call.before

C12_Witness ==
    /\ call.n = 2 /\ call.prevOk /\ call.prevOps > 1
    /\ call.stage = "done" /\ call.fetched = 1..Len(dnsNames)
    /\ Len(call.desired) > Cardinality(Range(call.desired))

\* C13: whatever has failed, every planned operation of every fetched name is
\* either still to be applied or has been attempted, no operation is attempted
\* twice, and the call returns only after every configured name has been
\* fetched (or its fetch has failed) and nothing is left to apply.
C13_PartialFailure ==
    /\ call.plans = call.todo \cup Logged
    /\ \A j, k \in 1..Len(call.log) : call.log[j].op = call.log[k].op => j = k
    /\ call.stage = "done" =>
           /\ call.todo = {}
           /\ call.fetched \cup call.skipped = 1..Len(dnsNames)

\* an operation of the first name fails, a later one of the same plan succeeds
\* and the second name's plan is applied too
C13_Witness ==
    /\ call.stage = "done" /\ call.failed /\ Len(dnsNames) = 2
    /\ \E j, k, m \in 1..Len(call.log) :
           /\ j < k /\ k < m
           /\ ~call.log[j].ok /\ call.log[j].op.idx = 1
           /\ call.log[k].ok /\ call.log[k].op.idx = 1
           /\ call.log[m].op.idx = 2
    /\ call.plans = Logged

====
